---- MODULE Spec2Model ----
(***************************************************************************)
(* rebind.c: an LD_PRELOAD interposer for bind(2).  The model follows the  *)
(* one function of the file, bind(), statement by statement, for several   *)
(* threads of one process, together with the process environment, the      *)
(* caller's sockaddr buffer, the private sockaddr_storage copy and the     *)
(* calls made to libc (dlsym, getenv, strtol, setsockopt, the real bind).  *)
(* Data model: LP64 Linux (long is 64 bits, int 32 bits, ports 16 bits).   *)
(***************************************************************************)
EXTENDS Integers, Sequences, FiniteSets, TLC

\* ------------------------------------------------------------------------
\* Platform constants used by rebind.c
\* ------------------------------------------------------------------------
AF_UNSPEC == 0
AF_UNIX == 1
AF_INET == 2
AF_INET6 == 10
SizeofAddrTmp == 128
SizeofSockaddrIn == 16
SizeofSockaddrIn6 == 28
Limb == 65536
HalfLimb == 32768

\* ------------------------------------------------------------------------
\* Bounds of the model
\* ------------------------------------------------------------------------
NumThreads == 2

Threads == 1..NumThreads
MainThread == 1

\* ------------------------------------------------------------------------
\* Input sets
\* ------------------------------------------------------------------------
\* Environment strings, character by character.
S_empty == << >>
S_0 == <<"0">>
S_80 == <<"8", "0">>
S_81 == <<"8", "1">>
S_abc == <<"a", "b", "c">>
S_80x == <<"8", "0", "x">>
S_minus1 == <<"-", "1">>
S_65616 == <<"6", "5", "6", "1", "6">>
S_2p32_80 == <<"4", "2", "9", "4", "9", "6", "7", "3", "7", "6">>
S_huge == <<"9", "9", "9", "9", "9", "9", "9", "9", "9", "9",
            "9", "9", "9", "9", "9", "9", "9", "9", "9", "9">>

NULLSTR == [set |-> FALSE, str |-> << >>]
SetTo(s) == [set |-> TRUE, str |-> s]

\* Names read by the code, and the names of the header comment.
CodeNames == {"REBIND_OLD_PORT", "REBIND_NEW_PORT"}
HeaderNames == {"REBIND_PORT_OLD", "REBIND_PORT_NEW"}
EnvNames == CodeNames \cup HeaderNames

\* The values each variable is given (NULLSTR: the variable is unset).
EnvChoices(n) ==
    CASE n = "REBIND_OLD_PORT" ->
           {NULLSTR, SetTo(S_empty), SetTo(S_0), SetTo(S_80), SetTo(S_80x),
            SetTo(S_2p32_80)}
      [] n = "REBIND_NEW_PORT" ->
           {NULLSTR, SetTo(S_empty), SetTo(S_0), SetTo(S_81), SetTo(S_abc),
            SetTo(S_minus1), SetTo(S_65616), SetTo(S_huge)}
      [] n = "REBIND_PORT_OLD" -> {NULLSTR, SetTo(S_80)}
      [] n = "REBIND_PORT_NEW" -> {NULLSTR, SetTo(S_81)}

Ports == {80, 81}
SockFds == {3, 4}
AddrLens == {1, 28, 200}
V4Addrs == {<<0, 0, 0, 0>>, <<10, 0, 0, 1>>}
V6Any == <<0, 0, 0, 0, 0, 0, 0, 0, 0, 0, 0, 0, 0, 0, 0, 0>>
V6LinkLocal == <<254, 128, 0, 0, 0, 0, 0, 0, 0, 0, 0, 0, 0, 0, 0, 1>>
V6Addrs == {<<V6Any, 0>>, <<V6LinkLocal, 2>>}
Errnos == {"EADDRINUSE"}

\* ------------------------------------------------------------------------
\* libc conversions
\* ------------------------------------------------------------------------
DigitChars == <<"0", "1", "2", "3", "4", "5", "6", "7", "8", "9">>
IsDigit(c) == \E i \in 1..10 : DigitChars[i] = c
DigitVal(c) == (CHOOSE i \in 1..10 : DigitChars[i] = c) - 1
IsSpace(c) == c = " "

\* A 64-bit quantity as four 16-bit limbs, least significant first.
Zero64 == <<0, 0, 0, 0>>
LONG_MAX == <<65535, 65535, 65535, 32767>>
LONG_MIN == <<0, 0, 0, 32768>>

\* acc * 10 + d on 64 bits; c is the carry out of the top limb.
MulAdd10(acc, d) ==
    LET t1 == acc[1] * 10 + d
        t2 == acc[2] * 10 + (t1 \div Limb)
        t3 == acc[3] * 10 + (t2 \div Limb)
        t4 == acc[4] * 10 + (t3 \div Limb)
    IN  [v |-> <<t1 % Limb, t2 % Limb, t3 % Limb, t4 % Limb>>,
         c |-> t4 \div Limb]

\* Two's complement negation on 64 bits.
Neg64(m) ==
    LET t1 == (Limb - 1 - m[1]) + 1
        t2 == (Limb - 1 - m[2]) + (t1 \div Limb)
        t3 == (Limb - 1 - m[3]) + (t2 \div Limb)
        t4 == (Limb - 1 - m[4]) + (t3 \div Limb)
    IN  <<t1 % Limb, t2 % Limb, t3 % Limb, t4 % Limb>>

RECURSIVE SkipSpace(_, _)
SkipSpace(s, i) ==
    IF i <= Len(s) /\ IsSpace(s[i]) THEN SkipSpace(s, i + 1) ELSE i

\* Consume the digits from position i on: the magnitude, whether it left
\* 64 bits, and the position of the first character not consumed.
RECURSIVE ScanDigits(_, _, _, _)
ScanDigits(s, i, acc, ovf) ==
    IF i <= Len(s) /\ IsDigit(s[i])
    THEN LET r == MulAdd10(acc, DigitVal(s[i]))
         IN  ScanDigits(s, i + 1, r.v, ovf \/ r.c > 0)
    ELSE [mag |-> acc, ovf |-> ovf, end |-> i]

\* strtol(s, &end, 10): val is the long returned, end the index of *end
\* (Len(s) + 1 is the terminating NUL), erange whether errno was set.
strtol(s) ==
    LET i0 == SkipSpace(s, 1)
        neg == i0 <= Len(s) /\ s[i0] = "-"
        i1 == IF i0 <= Len(s) /\ s[i0] \in {"-", "+"} THEN i0 + 1 ELSE i0
        d == ScanDigits(s, i1, Zero64, FALSE)
        m == d.mag
        tooBigPos == d.ovf \/ m[4] >= HalfLimb
        tooBigNeg == d.ovf \/ m[4] > HalfLimb
                       \/ (m[4] = HalfLimb /\ <<m[1], m[2], m[3]>> # <<0, 0, 0>>)
    IN  IF d.end = i1
        THEN [val |-> Zero64, end |-> 1, erange |-> FALSE]
        ELSE IF neg
             THEN IF tooBigNeg
                  THEN [val |-> LONG_MIN, end |-> d.end, erange |-> TRUE]
                  ELSE [val |-> Neg64(m), end |-> d.end, erange |-> FALSE]
             ELSE IF tooBigPos
                  THEN [val |-> LONG_MAX, end |-> d.end, erange |-> TRUE]
                  ELSE [val |-> m, end |-> d.end, erange |-> FALSE]

\* Conversion of a long to int: the low 32 bits, as a signed value.
LongToInt(v) ==
    IF v[2] >= HalfLimb THEN (v[2] - Limb) * Limb + v[1]
                        ELSE v[2] * Limb + v[1]

\* A 16-bit field in network byte order is the pair <<high byte, low byte>>.
ntohs(f) == f[1] * 256 + f[2]
htons(x) == LET u == x % Limb IN <<u \div 256, u % 256>>

INADDR_LOOPBACK_N == <<127, 0, 0, 1>>
v4_loopback_mapped == <<0, 0, 0, 0, 0, 0, 0, 0, 0, 0, 255, 255, 127, 0, 0, 1>>
\* ------------------------------------------------------------------------
\* sockaddr buffers.  One record stands for the bytes of a buffer, seen
\* through the struct sockaddr_in and struct sockaddr_in6 casts of the code:
\*   sa_family [0,2)  port [2,4)  sin_addr [4,8)
\*   sin6_flowinfo [4,8)  sin6_addr [8,24)  sin6_scope_id [24,28)
\* A field whose bytes were never written is indeterminate (-1 or << >>).
\* ------------------------------------------------------------------------
IndetBuf == [sa_family |-> -1, port |-> << >>, sin_addr |-> << >>,
             sin6_flowinfo |-> << >>, sin6_addr |-> << >>, sin6_scope_id |-> -1]

In4Buf(p, ip) == [IndetBuf EXCEPT !.sa_family = AF_INET, !.port = htons(p),
                                  !.sin_addr = ip]
In6Buf(p, ip, sc) == [IndetBuf EXCEPT !.sa_family = AF_INET6, !.port = htons(p),
                                      !.sin6_flowinfo = <<0, 0, 0, 0>>,
                                      !.sin6_addr = ip, !.sin6_scope_id = sc]
\* Another family: the two bytes at the port position are whatever lies there.
OtherBuf(p) == [IndetBuf EXCEPT !.sa_family = AF_UNIX, !.port = htons(p)]

CallerBufs == {In4Buf(p, ip) : p \in Ports, ip \in V4Addrs}
              \cup {In6Buf(p, a[1], a[2]) : p \in Ports, a \in V6Addrs}
              \cup {OtherBuf(p) : p \in Ports}

\* The requests a caller makes: a null address, or a pointer to its buffer.
Requests == {[sockfd |-> fd, addr |-> "NULL", addrlen |-> 0, buf |-> IndetBuf] :
                 fd \in SockFds}
            \cup {[sockfd |-> fd, addr |-> "addr", addrlen |-> n, buf |-> b] :
                 fd \in SockFds, n \in AddrLens, b \in CallerBufs}
RequestsMT == {r \in Requests :
                 /\ r.sockfd = 3
                 /\ r.addr = "addr" => /\ r.addrlen = 28
                                        /\ r.buf \in {In4Buf(80, <<0, 0, 0, 0>>),
                                                       In6Buf(80, V6Any, 0)}}

NoArgs == [sockfd |-> 0, addr |-> "NULL", addrlen |-> 0]
NoLoc == [family |-> AF_UNSPEC, askport |-> 0, do_move |-> FALSE,
          oldport |-> 0, newport |-> 0, addrlen_tmp |-> 0, ret |-> 0,
          entry_func |-> "NULL"]

VARIABLES env, func, resolvable, fault, pc, args, loc, addr_mem, orig,
          addr_tmp, errno, log

vars == <<env, func, resolvable, fault, pc, args, loc, addr_mem, orig,
          addr_tmp, errno, log>>

\* ------------------------------------------------------------------------
\* The pieces of bind()
\* ------------------------------------------------------------------------
\* line 51
Family(a, b) == IF a # "NULL" THEN b.sa_family ELSE AF_UNSPEC

\* line 54: RTLD_NEXT lookup of "bind"; the same symbol on every lookup.
dlsym(ok) == IF ok THEN "libc_bind" ELSE "NULL"

getenv(e, name) == e[name]

\* lines 74-82, for a family that passed the test of line 71
ParseAndMatch(PORT_OLD, PORT_NEW, askport) ==
    IF PORT_OLD.set /\ PORT_OLD.str # << >> /\ PORT_NEW.set /\ PORT_NEW.str # << >>
    THEN LET r1 == strtol(PORT_OLD.str)
             r2 == strtol(PORT_NEW.str)
             oldport == LongToInt(r1.val)
             newport == LongToInt(r2.val)
         IN  [do_move |-> /\ oldport # 0 /\ r1.end = Len(PORT_OLD.str) + 1
                          /\ newport # 0 /\ r2.end = Len(PORT_NEW.str) + 1
                          /\ oldport = askport,
              oldport |-> oldport, newport |-> newport,
              erange |-> r1.erange \/ r2.erange]
    ELSE [do_move |-> FALSE, oldport |-> 0, newport |-> 0, erange |-> FALSE]

\* Variant: the test of line 71 is missing.
DoMove_anyfamily(family, e, askport) ==
    ParseAndMatch(getenv(e, "REBIND_OLD_PORT"), getenv(e, "REBIND_NEW_PORT"), askport)

\* lines 70-84
DoMove(family, e, askport) ==
    IF family = AF_INET \/ family = AF_INET6
    THEN ParseAndMatch(getenv(e, "REBIND_OLD_PORT"), getenv(e, "REBIND_NEW_PORT"),
                       askport)
    ELSE [do_move |-> FALSE, oldport |-> 0, newport |-> 0, erange |-> FALSE]

\* lines 97-100
AddrlenTmp(addrlen) == IF addrlen > SizeofAddrTmp THEN SizeofAddrTmp ELSE addrlen

\* line 101: the first n bytes of src over dst
memcpy(dst, src, n) ==
    [sa_family |-> IF n >= 2 THEN src.sa_family ELSE dst.sa_family,
     port |-> IF n >= 4 THEN src.port ELSE dst.port,
     sin_addr |-> IF n >= 8 THEN src.sin_addr ELSE dst.sin_addr,
     sin6_flowinfo |-> IF n >= 8 THEN src.sin6_flowinfo ELSE dst.sin6_flowinfo,
     sin6_addr |-> IF n >= 24 THEN src.sin6_addr ELSE dst.sin6_addr,
     sin6_scope_id |-> IF n >= 28 THEN src.sin6_scope_id ELSE dst.sin6_scope_id]

\* lines 105-107
RewriteIn(b, newport) ==
    [b EXCEPT !.sin_addr = INADDR_LOOPBACK_N, !.port = htons(newport)]

\* lines 115-117
RewriteIn6(b, newport) ==
    [b EXCEPT !.sin6_addr = v4_loopback_mapped, !.port = htons(newport),
              !.sin6_scope_id = 0]

\* Variant: the rewrite goes through the caller's pointer.
RewriteTarget_inplace == "addr"
\* lines 105 and 109: the buffer the rewrite goes to
RewriteTarget == "addr_tmp"

BindEvent(t, ptr, b, len, r) ==
    [op |-> "bind", fd |-> args[t].sockfd, ptr |-> ptr, buf |-> b, len |-> len,
     ret |-> r.ret, err |-> r.err]
SockoptEvent(t, r) ==
    [op |-> "setsockopt", fd |-> args[t].sockfd, ptr |-> "v6_only", buf |-> IndetBuf,
     len |-> 0, ret |-> r.ret, err |-> r.err]

\* What a system call can answer: success, or -1 with errno set.
BindResults == {[ret |-> 0, err |-> "none"]}
               \cup {[ret |-> -1, err |-> e] : e \in Errnos}
SockoptResults == {[ret |-> 0, err |-> "none"], [ret |-> -1, err |-> "ENOPROTOOPT"]}
ErrnoAfter(e, r) == IF r.ret = -1 THEN r.err ELSE e

\* ------------------------------------------------------------------------
\* Initial state: a process that has not called bind yet.
\* ------------------------------------------------------------------------
InitCommon ==
    /\ func = "NULL"
    /\ resolvable \in BOOLEAN
    /\ fault = "none"
    /\ pc = [t \in Threads |-> "idle"]
    /\ args = [t \in Threads |-> NoArgs]
    /\ loc = [t \in Threads |-> NoLoc]
    /\ addr_mem = [t \in Threads |-> IndetBuf]
    /\ orig = [t \in Threads |-> IndetBuf]
    /\ addr_tmp = [t \in Threads |-> IndetBuf]
    /\ errno = [t \in Threads |-> "none"]
    /\ log = [t \in Threads |-> << >>]

Init ==
    /\ env = [n \in EnvNames |-> NULLSTR]
    /\ InitCommon

InitMT ==
    /\ env = [n \in EnvNames |-> IF n = "REBIND_OLD_PORT"
                                  THEN SetTo(S_80)
                                  ELSE IF n = "REBIND_NEW_PORT"
                                       THEN SetTo(S_81)
                                       ELSE NULLSTR]
    /\ InitCommon

\* ------------------------------------------------------------------------
\* Actions
\* ------------------------------------------------------------------------
\* setenv / unsetenv by the program, between its bind calls.
SetEnv(n, v) ==
    /\ fault = "none"
    /\ \A t \in Threads : pc[t] = "idle"
    /\ env[n] # v
    /\ env' = [env EXCEPT ![n] = v]
    /\ UNCHANGED <<func, resolvable, fault, pc, args, loc, addr_mem, orig,
                   addr_tmp, errno, log>>

\* A caller enters bind(sockfd, addr, addrlen); lines 42-51.
Call(t, r) ==
    /\ fault = "none"
    /\ pc[t] = "idle"
    /\ args' = [args EXCEPT ![t] = [sockfd |-> r.sockfd, addr |-> r.addr,
                                    addrlen |-> r.addrlen]]
    /\ addr_mem' = [addr_mem EXCEPT ![t] = r.buf]
    /\ orig' = [orig EXCEPT ![t] = r.buf]
    /\ addr_tmp' = [addr_tmp EXCEPT ![t] = IndetBuf]
    /\ loc' = [loc EXCEPT ![t] = [NoLoc EXCEPT !.family = Family(r.addr, r.buf),
                                               !.entry_func = func]]
    /\ log' = [log EXCEPT ![t] = << >>]
    /\ pc' = [pc EXCEPT ![t] = "L53"]
    /\ UNCHANGED <<env, func, resolvable, fault, errno>>

\* Variant: the lookup is done on every call.
CheckFunc_always(t) ==
    /\ fault = "none"
    /\ pc[t] = "L53"
    /\ pc' = [pc EXCEPT ![t] = "L54"]
    /\ UNCHANGED <<env, func, resolvable, fault, args, loc, addr_mem, orig,
                   addr_tmp, errno, log>>

\* line 53: if (!func)
CheckFunc(t) ==
    /\ fault = "none"
    /\ pc[t] = "L53"
    /\ pc' = [pc EXCEPT ![t] = IF func = "NULL" THEN "L54" ELSE "L57"]
    /\ UNCHANGED <<env, func, resolvable, fault, args, loc, addr_mem, orig,
                   addr_tmp, errno, log>>

\* line 54: func = dlsym(RTLD_NEXT, "bind")
Resolve(t) ==
    /\ fault = "none"
    /\ pc[t] = "L54"
    /\ func' = dlsym(resolvable)
    /\ pc' = [pc EXCEPT ![t] = "L57"]
    /\ UNCHANGED <<env, resolvable, fault, args, loc, addr_mem, orig,
                   addr_tmp, errno, log>>

\* lines 57-65 with a non-null addr: askport from the port field
ReadPort(t) ==
    /\ fault = "none"
    /\ pc[t] = "L57"
    /\ args[t].addr # "NULL"
    /\ loc' = [loc EXCEPT ![t].askport = ntohs(addr_mem[t].port)]
    /\ pc' = [pc EXCEPT ![t] = "L71"]
    /\ UNCHANGED <<env, func, resolvable, fault, args, addr_mem, orig,
                   addr_tmp, errno, log>>

\* lines 61-64 with a null addr: the family is AF_UNSPEC, so the else branch
\* reads sin6_port and sin6_addr through the null pointer.  The process
\* takes a fault, or the reads yield arbitrary bytes.
ReadPortNull(t) ==
    /\ fault = "none"
    /\ pc[t] = "L57"
    /\ args[t].addr = "NULL"
    /\ \/ /\ fault' = "null_addr"
          /\ UNCHANGED <<pc, loc>>
       \/ /\ \E p \in Ports : loc' = [loc EXCEPT ![t].askport = p]
          /\ pc' = [pc EXCEPT ![t] = "L71"]
          /\ UNCHANGED fault
    /\ UNCHANGED <<env, func, resolvable, args, addr_mem, orig, addr_tmp,
                   errno, log>>

\* lines 70-84
Decide(t) ==
    /\ fault = "none"
    /\ pc[t] = "L71"
    /\ LET d == DoMove(loc[t].family, env, loc[t].askport)
       IN  /\ loc' = [loc EXCEPT ![t].do_move = d.do_move,
                                 ![t].oldport = d.oldport,
                                 ![t].newport = d.newport]
           /\ errno' = [errno EXCEPT ![t] = IF d.erange THEN "ERANGE" ELSE @]
           /\ pc' = [pc EXCEPT ![t] = IF d.do_move THEN "L97" ELSE "L88"]
    /\ UNCHANGED <<env, func, resolvable, fault, args, addr_mem, orig,
                   addr_tmp, log>>

\* line 88: ret = func(sockfd, addr, addrlen)
PassThrough(t) ==
    /\ fault = "none"
    /\ pc[t] = "L88"
    /\ IF func = "NULL"
       THEN /\ fault' = "null_func"
            /\ UNCHANGED <<pc, loc, errno, log>>
       ELSE \E r \in BindResults :
            /\ log' = [log EXCEPT ![t] = Append(@, BindEvent(t, args[t].addr,
                           addr_mem[t], args[t].addrlen, r))]
            /\ loc' = [loc EXCEPT ![t].ret = r.ret]
            /\ errno' = [errno EXCEPT ![t] = ErrnoAfter(@, r)]
            /\ pc' = [pc EXCEPT ![t] = "L122"]
            /\ UNCHANGED fault
    /\ UNCHANGED <<env, func, resolvable, args, addr_mem, orig, addr_tmp>>

\* lines 97-101
CopyAddr(t) ==
    /\ fault = "none"
    /\ pc[t] = "L97"
    /\ LET n == AddrlenTmp(args[t].addrlen)
       IN  /\ loc' = [loc EXCEPT ![t].addrlen_tmp = n]
           /\ addr_tmp' = [addr_tmp EXCEPT ![t] = memcpy(@, addr_mem[t], n)]
    /\ pc' = [pc EXCEPT ![t] = IF loc[t].family = AF_INET THEN "L105" ELSE "L114"]
    /\ UNCHANGED <<env, func, resolvable, fault, args, addr_mem, orig,
                   errno, log>>

\* lines 104-107
RewriteV4(t) ==
    /\ fault = "none"
    /\ pc[t] = "L105"
    /\ IF RewriteTarget = "addr_tmp"
       THEN /\ addr_tmp' = [addr_tmp EXCEPT ![t] = RewriteIn(@, loc[t].newport)]
            /\ UNCHANGED addr_mem
       ELSE /\ addr_mem' = [addr_mem EXCEPT ![t] = RewriteIn(@, loc[t].newport)]
            /\ UNCHANGED addr_tmp
    /\ pc' = [pc EXCEPT ![t] = "L119"]
    /\ UNCHANGED <<env, func, resolvable, fault, args, loc, orig, errno, log>>

\* Variant: a failed setsockopt is returned to the caller, bind is not tried.
ClearV6Only_abort(t) ==
    /\ fault = "none"
    /\ pc[t] = "L114"
    /\ \E r \in SockoptResults :
        /\ log' = [log EXCEPT ![t] = Append(@, SockoptEvent(t, r))]
        /\ errno' = [errno EXCEPT ![t] = ErrnoAfter(@, r)]
        /\ loc' = [loc EXCEPT ![t].ret = r.ret]
        /\ pc' = [pc EXCEPT ![t] = IF r.ret = -1 THEN "L122" ELSE "L115"]
    /\ UNCHANGED <<env, func, resolvable, fault, args, addr_mem, orig, addr_tmp>>

\* Variant: the socket option is left alone.
ClearV6Only_skip(t) ==
    /\ fault = "none"
    /\ pc[t] = "L114"
    /\ pc' = [pc EXCEPT ![t] = "L115"]
    /\ UNCHANGED <<env, func, resolvable, fault, args, loc, addr_mem, orig,
                   addr_tmp, errno, log>>

\* lines 113-114: (void)setsockopt(sockfd, IPPROTO_IPV6, IPV6_V6ONLY, 0)
ClearV6Only(t) ==
    /\ fault = "none"
    /\ pc[t] = "L114"
    /\ \E r \in SockoptResults :
        /\ log' = [log EXCEPT ![t] = Append(@, SockoptEvent(t, r))]
        /\ errno' = [errno EXCEPT ![t] = ErrnoAfter(@, r)]
    /\ pc' = [pc EXCEPT ![t] = "L115"]
    /\ UNCHANGED <<env, func, resolvable, fault, args, loc, addr_mem, orig,
                   addr_tmp>>

\* lines 115-117
RewriteV6(t) ==
    /\ fault = "none"
    /\ pc[t] = "L115"
    /\ IF RewriteTarget = "addr_tmp"
       THEN /\ addr_tmp' = [addr_tmp EXCEPT ![t] = RewriteIn6(@, loc[t].newport)]
            /\ UNCHANGED addr_mem
       ELSE /\ addr_mem' = [addr_mem EXCEPT ![t] = RewriteIn6(@, loc[t].newport)]
            /\ UNCHANGED addr_tmp
    /\ pc' = [pc EXCEPT ![t] = "L119"]
    /\ UNCHANGED <<env, func, resolvable, fault, args, loc, orig, errno, log>>

\* line 119: ret = func(sockfd, &addr_tmp, addrlen_tmp)
CallRebound(t) ==
    /\ fault = "none"
    /\ pc[t] = "L119"
    /\ IF func = "NULL"
       THEN /\ fault' = "null_func"
            /\ UNCHANGED <<pc, loc, errno, log>>
       ELSE \E r \in BindResults :
            /\ log' = [log EXCEPT ![t] = Append(@, BindEvent(t, "addr_tmp",
                           addr_tmp[t], loc[t].addrlen_tmp, r))]
            /\ loc' = [loc EXCEPT ![t].ret = r.ret]
            /\ errno' = [errno EXCEPT ![t] = ErrnoAfter(@, r)]
            /\ pc' = [pc EXCEPT ![t] = "L122"]
            /\ UNCHANGED fault
    /\ UNCHANGED <<env, func, resolvable, args, addr_mem, orig, addr_tmp>>

\* lines 90 and 122: return ret
Return(t) ==
    /\ fault = "none"
    /\ pc[t] = "L122"
    /\ pc' = [pc EXCEPT ![t] = "returned"]
    /\ UNCHANGED <<env, func, resolvable, fault, args, loc, addr_mem, orig,
                   addr_tmp, errno, log>>

\* The caller has looked at the result and goes on.
Resume(t) ==
    /\ fault = "none"
    /\ pc[t] = "returned"
    /\ pc' = [pc EXCEPT ![t] = "idle"]
    /\ args' = [args EXCEPT ![t] = NoArgs]
    /\ loc' = [loc EXCEPT ![t] = NoLoc]
    /\ addr_mem' = [addr_mem EXCEPT ![t] = IndetBuf]
    /\ orig' = [orig EXCEPT ![t] = IndetBuf]
    /\ addr_tmp' = [addr_tmp EXCEPT ![t] = IndetBuf]
    /\ errno' = [errno EXCEPT ![t] = "none"]
    /\ log' = [log EXCEPT ![t] = << >>]
    /\ UNCHANGED <<env, func, resolvable, fault>>

\* bind(), one statement at a time, on thread t
Step(t) ==
    \/ CheckFunc(t)
    \/ Resolve(t)
    \/ ReadPort(t)
    \/ ReadPortNull(t)
    \/ Decide(t)
    \/ PassThrough(t)
    \/ CopyAddr(t)
    \/ RewriteV4(t)
    \/ ClearV6Only(t)
    \/ RewriteV6(t)
    \/ CallRebound(t)
    \/ Return(t)
    \/ Resume(t)

\* One thread, any request, the environment changing between calls.
Next ==
    \/ \E n \in EnvNames : \E v \in EnvChoices(n) : SetEnv(n, v)
    \/ \E r \in Requests : Call(MainThread, r)
    \/ Step(MainThread)

Spec == Init /\ [][Next]_vars

\* Several threads calling bind concurrently, no lock.
NextMT ==
    \/ \E t \in Threads, r \in RequestsMT : Call(t, r)
    \/ \E t \in Threads : Step(t)

SpecMT == InitMT /\ [][NextMT]_vars

\* ------------------------------------------------------------------------
\* Vocabulary of the properties
\* ------------------------------------------------------------------------
InCall == {"L53", "L54", "L57", "L71", "L88", "L97", "L105", "L114", "L115",
           "L119", "L122", "returned"}
Delegated(t) == pc[t] \in {"L122", "returned"}

BindCalls(t) == SelectSeq(log[t], LAMBDA e : e.op = "bind")
SockoptCalls(t) == SelectSeq(log[t], LAMBDA e : e.op = "setsockopt")

\* The call on thread t reached the real bind with the private copy.
Redirected(t) == \E i \in 1..Len(log[t]) :
                    log[t][i].op = "bind" /\ log[t][i].ptr = "addr_tmp"

IsIPRequest(t) == args[t].addr # "NULL" /\ orig[t].sa_family \in {AF_INET, AF_INET6}
RequestedPort(t) == ntohs(orig[t].port)

\* A string that is a positive base-10 integer: digits only, not all "0".
IsPositiveDecimal(v) ==
    /\ v.set
    /\ v.str # << >>
    /\ \A i \in 1..Len(v.str) : IsDigit(v.str[i])
    /\ \E i \in 1..Len(v.str) : v.str[i] # "0"

RECURSIVE StripZeros(_)
StripZeros(s) == IF s # << >> /\ Head(s) = "0" THEN StripZeros(Tail(s)) ELSE s

RECURSIVE DecimalValue(_)
DecimalValue(s) ==
    IF s = << >> THEN 0 ELSE DecimalValue(SubSeq(s, 1, Len(s) - 1)) * 10
                             + DigitVal(s[Len(s)])

\* The number written by the digit string of v is n (n below 100000).
DecimalIs(v, n) ==
    LET d == StripZeros(v.str)
    IN  Len(d) <= 5 /\ DecimalValue(d) = n

ValidlyConfigured(old, new) == IsPositiveDecimal(old) /\ IsPositiveDecimal(new)

\* ------------------------------------------------------------------------
\* C1: a call is redirected if and only if its family is IPv4 or IPv6, both
\* REBIND_OLD_PORT and REBIND_NEW_PORT are positive base-10 integers and the
\* requested port equals the old-port value, for the environment in force
\* at that call.
\* ------------------------------------------------------------------------
C1_RedirectIff ==
    \A t \in Threads :
        pc[t] = "returned" =>
            (Redirected(t) <=>
                /\ IsIPRequest(t)
                /\ ValidlyConfigured(env["REBIND_OLD_PORT"], env["REBIND_NEW_PORT"])
                /\ DecimalIs(env["REBIND_OLD_PORT"], RequestedPort(t)))

\* ------------------------------------------------------------------------
\* C2: an IPv4 request (a sockaddr_in of full declared length) on a validly
\* configured old port reaches the real bind with the same descriptor,
\* family IPv4, address 127.0.0.1 and the configured new port.
\* ------------------------------------------------------------------------
C2_IPv4Rewritten ==
    \A t \in Threads :
        ( /\ pc[t] = "returned"
          /\ args[t].addr # "NULL" /\ orig[t].sa_family = AF_INET
          /\ args[t].addrlen >= SizeofSockaddrIn
          /\ ValidlyConfigured(env["REBIND_OLD_PORT"], env["REBIND_NEW_PORT"])
          /\ DecimalIs(env["REBIND_OLD_PORT"], RequestedPort(t)) )
        => /\ Len(BindCalls(t)) = 1
           /\ LET e == BindCalls(t)[1]
              IN  /\ e.fd = args[t].sockfd
                  /\ e.buf.sa_family = AF_INET
                  /\ e.buf.sin_addr = <<127, 0, 0, 1>>
                  /\ e.buf.port # << >>
                  /\ DecimalIs(env["REBIND_NEW_PORT"], ntohs(e.buf.port))

\* ------------------------------------------------------------------------
\* C3: an IPv6 request (a sockaddr_in6 of full declared length) on a validly
\* configured old port reaches the real bind with family IPv6, address
\* ::ffff:127.0.0.1, the configured new port and scope identifier zero.
\* ------------------------------------------------------------------------
C3_IPv6Rewritten ==
    \A t \in Threads :
        ( /\ pc[t] = "returned"
          /\ args[t].addr # "NULL" /\ orig[t].sa_family = AF_INET6
          /\ args[t].addrlen >= SizeofSockaddrIn6
          /\ ValidlyConfigured(env["REBIND_OLD_PORT"], env["REBIND_NEW_PORT"])
          /\ DecimalIs(env["REBIND_OLD_PORT"], RequestedPort(t)) )
        => /\ Len(BindCalls(t)) = 1
           /\ LET e == BindCalls(t)[1]
              IN  /\ e.buf.sa_family = AF_INET6
                  /\ e.buf.sin6_addr = <<0, 0, 0, 0, 0, 0, 0, 0, 0, 0,
                                         255, 255, 127, 0, 0, 1>>
                  /\ e.buf.sin6_scope_id = 0
                  /\ e.buf.port # << >>
                  /\ DecimalIs(env["REBIND_NEW_PORT"], ntohs(e.buf.port))

\* ------------------------------------------------------------------------
\* C4: a request with a non-null address of a family other than IPv4 and
\* IPv6 is handed to the real bind with the original descriptor, pointer
\* and length, no socket option is touched, and the caller gets the real
\* bind's result, whatever the environment holds.
\* ------------------------------------------------------------------------
C4_OtherFamilyForwarded ==
    \A t \in Threads :
        ( /\ pc[t] \in InCall
          /\ args[t].addr # "NULL"
          /\ orig[t].sa_family \notin {AF_INET, AF_INET6} )
        => /\ SockoptCalls(t) = << >>
           /\ Delegated(t) =>
                /\ Len(log[t]) = 1
                /\ log[t][1].op = "bind"
                /\ log[t][1].fd = args[t].sockfd
                /\ log[t][1].ptr = args[t].addr
                /\ log[t][1].buf = orig[t]
                /\ log[t][1].len = args[t].addrlen
                /\ loc[t].ret = log[t][1].ret

C4_Witness ==
    \E t \in Threads :
        /\ pc[t] = "returned"
        /\ orig[t].sa_family = AF_UNIX
        /\ env["REBIND_OLD_PORT"] = SetTo(S_80)
        /\ env["REBIND_NEW_PORT"] = SetTo(S_81)
        /\ RequestedPort(t) = 80
        /\ Len(BindCalls(t)) = 1

\* ------------------------------------------------------------------------
\* C5: a call that returns has invoked the real bind exactly once, and the
\* caller gets that invocation's return value and, when it failed, its
\* errno, also when clearing IPv6-only failed or a value did not parse.
\* ------------------------------------------------------------------------
C5_ResultUnchanged ==
    \A t \in Threads :
        pc[t] = "returned" =>
            /\ Len(BindCalls(t)) = 1
            /\ loc[t].ret = BindCalls(t)[1].ret
            /\ BindCalls(t)[1].ret = -1 => errno[t] = BindCalls(t)[1].err

C5_Witness ==
    \E t \in Threads :
        /\ pc[t] = "returned"
        /\ Redirected(t)
        /\ Len(SockoptCalls(t)) = 1 /\ SockoptCalls(t)[1].ret = -1
        /\ loc[t].ret = -1 /\ errno[t] = "EADDRINUSE"

\* ------------------------------------------------------------------------
\* C6: when the real bind can be resolved, no bind call is fatal: not for a
\* null address, nor for any family, configuration or declared length.
\* ------------------------------------------------------------------------
C6_OnlyResolutionIsFatal == resolvable => fault = "none"

\* ------------------------------------------------------------------------
\* C7: the caller's address structure holds the bytes it held at the call,
\* throughout and after the call; on a redirected call the private copy is
\* the only buffer handed to the real bind.
\* ------------------------------------------------------------------------
C7_CallerAddressUntouched ==
    \A t \in Threads :
        /\ addr_mem[t] = orig[t]
        /\ loc[t].do_move =>
             \A i \in 1..Len(BindCalls(t)) : BindCalls(t)[i].ptr = "addr_tmp"

C7_Witness ==
    \E t \in Threads :
        /\ pc[t] = "returned"
        /\ Redirected(t)
        /\ BindCalls(t)[1].buf # orig[t]
        /\ orig[t].sa_family = AF_INET

\* ------------------------------------------------------------------------
\* C8: with REBIND_PORT_OLD and REBIND_PORT_NEW set (the names of the
\* header comment), a bind on the old port is done on the new port of
\* localhost.
\* ------------------------------------------------------------------------
C8_HeaderNamesRedirect ==
    \A t \in Threads :
        ( /\ pc[t] = "returned"
          /\ IsIPRequest(t)
          /\ ValidlyConfigured(env["REBIND_PORT_OLD"], env["REBIND_PORT_NEW"])
          /\ DecimalIs(env["REBIND_PORT_OLD"], RequestedPort(t)) )
        => /\ Len(BindCalls(t)) = 1
           /\ BindCalls(t)[1].buf.port # << >>
           /\ DecimalIs(env["REBIND_PORT_NEW"], ntohs(BindCalls(t)[1].buf.port))
           /\ \/ BindCalls(t)[1].buf.sin_addr = <<127, 0, 0, 1>>
              \/ BindCalls(t)[1].buf.sin6_addr = <<0, 0, 0, 0, 0, 0, 0, 0, 0, 0,
                                                   255, 255, 127, 0, 0, 1>>

\* ------------------------------------------------------------------------
\* C9: a redirected IPv6 call makes exactly one attempt to clear IPv6-only,
\* before the real bind, and the real bind then gets the rewritten address
\* whether the attempt succeeded or not; no other call touches a socket
\* option.
\* ------------------------------------------------------------------------
C9_V6OnlyClearedFirst ==
    \A t \in Threads :
        IF loc[t].do_move /\ loc[t].family = AF_INET6
        THEN /\ Len(SockoptCalls(t)) <= 1
             /\ \A i \in 1..Len(log[t]) :
                    log[t][i].op = "bind" => i = 2 /\ log[t][1].op = "setsockopt"
             /\ Delegated(t) =>
                    /\ Len(log[t]) = 2
                    /\ log[t][1].fd = args[t].sockfd
                    /\ log[t][2].ptr = "addr_tmp"
                    /\ log[t][2].buf.sin6_addr = v4_loopback_mapped
                    /\ log[t][2].buf.port = htons(loc[t].newport)
        ELSE SockoptCalls(t) = << >>

C9_Witness ==
    \E t \in Threads :
        /\ pc[t] = "returned"
        /\ loc[t].family = AF_INET6
        /\ Len(log[t]) = 2
        /\ log[t][1].op = "setsockopt" /\ log[t][1].ret = -1
        /\ log[t][2].op = "bind" /\ log[t][2].ret = 0

\* ------------------------------------------------------------------------
\* C10: with threads making their first calls concurrently and the symbol
\* resolvable, every delegation goes through a non-null reference, a stored
\* reference is never replaced by another value nor reset, and a call that
\* starts after a reference was stored does not resolve again.
\* ------------------------------------------------------------------------
C10_StateInv ==
    /\ resolvable => fault # "null_func"
    /\ \A t \in Threads : pc[t] = "L54" => loc[t].entry_func = "NULL"
    /\ \A t \in Threads : BindCalls(t) # << >> => func = "libc_bind"

\* C10, as a property of behaviours: the state invariant above always holds
\* and no step replaces or resets a stored reference.
C10_ResolveOnce ==
    /\ []C10_StateInv
    /\ [][func # "NULL" => func' = func]_vars

C10_Witness ==
    \E t \in Threads :
        /\ pc[t] = "L54"
        /\ func = "libc_bind"
        /\ \E u \in Threads \ {t} : Delegated(u)
====
